---- MODULE Spec2Model ----
(***************************************************************************)
(* Model of the static blog generator of src/src/main.rs: a directory of   *)
(* dated markdown posts is turned into one page per post plus an index.    *)
(*                                                                         *)
(* A Rust string is modelled as a sequence of one-character strings, so    *)
(* that trimming, splitting, parsing and formatting are computed the way   *)
(* the code computes them.  Output text built by format! is a sequence     *)
(* whose literal parts are kept as single multi-character elements; the    *)
(* concatenation of its elements is the text written.                      *)
(***************************************************************************)
EXTENDS Integers, Sequences, FiniteSets, TLC

VARIABLES
  listing,    \* the entries fs::read_dir("posts") yields, in the order it yields them
  pos,        \* index into listing of the next entry of the for loop
  pc,         \* "start" | "loop" | "done" | "aborted" (an unwrap panicked)
  entry,      \* the directory entry handled last, None before the first
  file_info,  \* Option<FileNameStruct> of the entry handled last
  fm,         \* Option<Frontmatter> of the entry handled last
  mdast,      \* the document tree of the entry handled last, after extraction
  posts,      \* Vec<PostIndex>
  tags,       \* HashSet<String>
  tag_vec,    \* the sorted Vec<&String> that shadows tags after the loop
  public,     \* the files under public/: path |-> content
  console,    \* the lines printed by println!
  panic,      \* the call whose unwrap panicked, None while none has
  run,        \* 1 for the first run of the program, 2 for a second one
  prev        \* public/ as the previous run left it, and the listing of that run

vars == <<listing, pos, pc, entry, file_info, fm, mdast, posts, tags, tag_vec,
          public, console, panic, run, prev>>

(***************************************************************************)
(* Bounds of the model.                                                    *)
(***************************************************************************)
MaxEntries == 3
MaxRerun == 2

(***************************************************************************)
(* Option<T>                                                               *)
(***************************************************************************)
None == [tag |-> "None"]
Some(x) == [tag |-> "Some", val |-> x]
IsSome(o) == o.tag = "Some"

(***************************************************************************)
(* str primitives                                                          *)
(***************************************************************************)
Min(S) == CHOOSE x \in S : \A y \in S : x <= y
Take(s, k) == SubSeq(s, 1, k)
Drop(s, k) == SubSeq(s, k + 1, Len(s))
EndsWith(s, p) == Len(p) <= Len(s) /\ SubSeq(s, Len(s) - Len(p) + 1, Len(s)) = p

\* char::is_whitespace, restricted to the characters of the model's alphabet
WhiteSpace == {" ", "\t", "\n", "\r"}

\* the characters of the model (tab, LF, CR and printable ASCII but the backquote)
\* in the order of their code points
AsciiOrder == << "\t", "\n", "\r", " ", "!", "\"", "#", "$", "%", "&", "'", "(", ")", "*", "+", ",", "-", ".", "/", "0", "1", "2", "3", "4", "5", "6", "7", "8", "9", ":", ";", "<", "=", ">", "?", "@", "A", "B", "C", "D", "E", "F", "G", "H", "I", "J", "K", "L", "M", "N", "O", "P", "Q", "R", "S", "T", "U", "V", "W", "X", "Y", "Z", "[", "\\", "]", "^", "_", "a", "b", "c", "d", "e", "f", "g", "h", "i", "j", "k", "l", "m", "n", "o", "p", "q", "r", "s", "t", "u", "v", "w", "x", "y", "z", "{", "|", "}", "~" >>
Ord(c) == CHOOSE i \in 1..Len(AsciiOrder) : AsciiOrder[i] = c

\* a byte that is no UTF-8: OsStr::to_str gives None on a name holding one
BadByte == "0xFF"
to_str(os) == IF \E i \in 1..Len(os) : os[i] = BadByte THEN None ELSE Some(os)

\* number of leading (trailing) characters of s that are in set
LeadCount(s, set) == Min({i \in 0..Len(s) : i = Len(s) \/ s[i + 1] \notin set})
TrailCount(s, set) == Min({k \in 0..Len(s) : k = Len(s) \/ s[Len(s) - k] \notin set})

\* str::trim_matches with a set of characters: every leading and every
\* trailing character of the set is removed
trim_matches(s, set) ==
  IF LeadCount(s, set) = Len(s) THEN <<>>
  ELSE SubSeq(s, LeadCount(s, set) + 1, Len(s) - TrailCount(s, set))

trim(s) == trim_matches(s, WhiteSpace)

\* str::trim_end_matches with a string pattern: the suffix is removed repeatedly
RECURSIVE trim_end_matches(_, _)
trim_end_matches(s, pat) ==
  IF pat # <<>> /\ EndsWith(s, pat)
  THEN trim_end_matches(Take(s, Len(s) - Len(pat)), pat)
  ELSE s

\* index of the first c in s, 0 when there is none
IndexOf(s, c) ==
  IF \E i \in 1..Len(s) : s[i] = c
  THEN Min({i \in 1..Len(s) : s[i] = c})
  ELSE 0

\* str::splitn(n, c), n >= 1: at most n parts, the last one the remainder
RECURSIVE splitn(_, _, _)
splitn(s, n, c) ==
  IF n <= 1 \/ IndexOf(s, c) = 0 THEN <<s>>
  ELSE <<Take(s, IndexOf(s, c) - 1)>> \o splitn(Drop(s, IndexOf(s, c)), n - 1, c)

\* str::split(c)
RECURSIVE split(_, _)
split(s, c) ==
  IF IndexOf(s, c) = 0 THEN <<s>>
  ELSE <<Take(s, IndexOf(s, c) - 1)>> \o split(Drop(s, IndexOf(s, c)), c)

\* str::split_once(c)
split_once(s, c) ==
  IF IndexOf(s, c) = 0 THEN None
  ELSE Some(<<Take(s, IndexOf(s, c) - 1), Drop(s, IndexOf(s, c))>>)

\* str::lines: split after each "\n"; a line loses its "\n" and then one "\r"
StripCr(l) == IF l # <<>> /\ l[Len(l)] = "\r" THEN Take(l, Len(l) - 1) ELSE l
RECURSIVE lines(_)
lines(s) ==
  IF s = <<>> THEN <<>>
  ELSE IF IndexOf(s, "\n") = 0 THEN <<s>>
  ELSE <<StripCr(Take(s, IndexOf(s, "\n") - 1))>> \o lines(Drop(s, IndexOf(s, "\n")))

\* [String]::join(sep)
RECURSIVE join(_, _)
join(ss, sep) ==
  IF ss = <<>> THEN <<>>
  ELSE IF Len(ss) = 1 THEN ss[1]
  ELSE ss[1] \o sep \o join(Tail(ss), sep)

(***************************************************************************)
(* Integers: i32 and i16, str::parse and Display                           *)
(***************************************************************************)
I32_MAX == 2147483647
I16_MAX == 32767
I32_MIN == (-I32_MAX) - 1
I16_MIN == (-I16_MAX) - 1

Digits == {"0", "1", "2", "3", "4", "5", "6", "7", "8", "9"}
DigitVal(c) == Ord(c) - Ord("0")

\* ceiling of a / 10
CeilDiv10(a) == (a \div 10) + (IF a % 10 = 0 THEN 0 ELSE 1)

\* the digits ds added to acc one by one, None on a non-digit or on overflow;
\* a negative number is accumulated downwards, as from_str_radix does
RECURSIVE Accumulate(_, _, _, _, _)
Accumulate(ds, acc, neg, lo, hi) ==
  IF ds = <<>> THEN Some(acc)
  ELSE IF ds[1] \notin Digits THEN None
  ELSE IF neg
    THEN IF acc < CeilDiv10(lo + DigitVal(ds[1])) THEN None
         ELSE Accumulate(Tail(ds), acc * 10 - DigitVal(ds[1]), neg, lo, hi)
    ELSE IF acc > (hi - DigitVal(ds[1])) \div 10 THEN None
         ELSE Accumulate(Tail(ds), acc * 10 + DigitVal(ds[1]), neg, lo, hi)

\* str::parse::<iN>: an optional sign, then at least one digit, within lo..hi
parse_int(s, lo, hi) ==
  IF s = <<>> THEN None
  ELSE IF s[1] \in {"+", "-"}
    THEN IF Len(s) = 1 THEN None
         ELSE Accumulate(Tail(s), 0, s[1] = "-", lo, hi)
    ELSE Accumulate(s, 0, FALSE, lo, hi)

\* Display of a non-negative integer
RECURSIVE DecNat(_)
DecNat(n) ==
  IF n < 10 THEN <<AsciiOrder[Ord("0") + n]>>
  ELSE DecNat(n \div 10) \o <<AsciiOrder[Ord("0") + (n % 10)]>>

\* Display of an integer
Dec(n) == IF n < 0 THEN <<"-">> \o DecNat(-n) ELSE DecNat(n)

(***************************************************************************)
(* parse_file_name                                                         *)
(***************************************************************************)
FileNameStruct(file_name, year, month, day, slug) ==
  [file_name |-> file_name, year |-> year, month |-> month, day |-> day,
   slug |-> slug]

\* parse_file_name with the name split at every dash
parse_file_name_split_all(name) ==
  LET file_name == trim_end_matches(name, <<".", "m", "d">>)
      parts == split(file_name, "-")
  IN IF Len(parts) < 4 THEN None
     ELSE LET year == parse_int(parts[1], I32_MIN, I32_MAX)
              month == parse_int(parts[2], I16_MIN, I16_MAX)
              day == parse_int(parts[3], I16_MIN, I16_MAX)
          IN IF ~IsSome(year) \/ ~IsSome(month) \/ ~IsSome(day) THEN None
             ELSE Some(FileNameStruct(file_name, year.val, month.val, day.val,
                                      parts[4]))

parse_file_name(name) ==
  LET file_name == trim_end_matches(name, <<".", "m", "d">>)
      parts == splitn(file_name, 4, "-")
  IN IF Len(parts) < 4 THEN None
     ELSE LET year == parse_int(parts[1], I32_MIN, I32_MAX)
              month == parse_int(parts[2], I16_MIN, I16_MAX)
              day == parse_int(parts[3], I16_MIN, I16_MAX)
          IN IF ~IsSome(year) \/ ~IsSome(month) \/ ~IsSome(day) THEN None
             ELSE Some(FileNameStruct(file_name, year.val, month.val, day.val,
                                      parts[4]))

(***************************************************************************)
(* parse_frontmatter                                                       *)
(***************************************************************************)
\* Frontmatter::default()
DefaultFrontmatter ==
  [layout |-> <<>>, title |-> <<>>, author |-> <<>>, categories |-> <<>>]

\* the categories of one value: brackets trimmed, split on ",", each trimmed
ParseCategories(value) ==
  LET items == split(trim_matches(value, {"[", "]"}), ",")
  IN [i \in 1..Len(items) |-> trim(items[i])]

\* the body of the for loop over the lines of the block
ApplyLine(f, line) ==
  LET kv == split_once(line, ":")
  IN IF ~IsSome(kv) THEN f
     ELSE LET key == trim(kv.val[1])
              value == trim(kv.val[2])
          IN CASE key = <<"l", "a", "y", "o", "u", "t">> -> [f EXCEPT !.layout = value]
               [] key = <<"t", "i", "t", "l", "e">> -> [f EXCEPT !.title = trim_matches(value, {"\""})]
               [] key = <<"a", "u", "t", "h", "o", "r">> -> [f EXCEPT !.author = trim_matches(value, {"\""})]
               [] key = <<"c", "a", "t", "e", "g", "o", "r", "i", "e", "s">> -> [f EXCEPT !.categories = ParseCategories(value)]
               [] OTHER -> f

RECURSIVE ApplyLines(_, _)
ApplyLines(f, ls) ==
  IF ls = <<>> THEN f ELSE ApplyLines(ApplyLine(f, ls[1]), Tail(ls))

\* parse_frontmatter(&mut node): the returned option and the node as it is left
parse_frontmatter(node) ==
  IF node.type # "Root" THEN [ret |-> None, node |-> node]
  ELSE IF node.children = <<>> THEN [ret |-> None, node |-> node]
  ELSE IF node.children[1].type # "Yaml" THEN [ret |-> None, node |-> node]
  ELSE [ret |-> Some(ApplyLines(DefaultFrontmatter, lines(node.children[1].value))),
        node |-> [node EXCEPT !.children = Tail(node.children)]]

(***************************************************************************)
(* Path::extension, and the test of the extension in main                  *)
(***************************************************************************)
LastIndexOf(s, c) ==
  IF \E i \in 1..Len(s) : s[i] = c
  THEN CHOOSE i \in 1..Len(s) : s[i] = c /\ \A j \in (i + 1)..Len(s) : s[j] # c
  ELSE 0

\* the part after the last ".", if there is one with something before it
extension(name) ==
  IF LastIndexOf(name, ".") <= 1 THEN None
  ELSE Some(Drop(name, LastIndexOf(name, ".")))

\* path.extension().and_then(|s| s.to_str()) != Some("md")
ExtensionIsNotMd(name) ==
  LET ext == extension(name)
      str == IF IsSome(ext) THEN to_str(ext.val) ELSE None
  IN str # Some(<<"m", "d">>)

(***************************************************************************)
(* The page of a post                                                      *)
(***************************************************************************)
\* characters outside ASCII that the format strings hold
EM_DASH == "U+2014"
EN_DASH == "U+2013"
COPYRIGHT == "U+00A9"

\* month_str with the three-letter names of June, July and September
month_str_three_letters(month) ==
  CASE month = 1 -> <<"J", "a", "n">>
    [] month = 2 -> <<"F", "e", "b">>
    [] month = 3 -> <<"M", "a", "r">>
    [] month = 4 -> <<"A", "p", "r">>
    [] month = 5 -> <<"M", "a", "y">>
    [] month = 6 -> <<"J", "u", "n">>
    [] month = 7 -> <<"J", "u", "l">>
    [] month = 8 -> <<"A", "u", "g">>
    [] month = 9 -> <<"S", "e", "p">>
    [] month = 10 -> <<"O", "c", "t">>
    [] month = 11 -> <<"N", "o", "v">>
    [] month = 12 -> <<"D", "e", "c">>
    [] OTHER -> <<"U", "n", "k", "n", "o", "w", "n">>

month_str(month) ==
  CASE month = 1 -> <<"J", "a", "n">>
    [] month = 2 -> <<"F", "e", "b">>
    [] month = 3 -> <<"M", "a", "r">>
    [] month = 4 -> <<"A", "p", "r">>
    [] month = 5 -> <<"M", "a", "y">>
    [] month = 6 -> <<"J", "u", "n", "e">>
    [] month = 7 -> <<"J", "u", "l", "y">>
    [] month = 8 -> <<"A", "u", "g">>
    [] month = 9 -> <<"S", "e", "p", "t">>
    [] month = 10 -> <<"O", "c", "t">>
    [] month = 11 -> <<"N", "o", "v">>
    [] month = 12 -> <<"D", "e", "c">>
    [] OTHER -> <<"U", "n", "k", "n", "o", "w", "n">>

\* format!("{month_str} {day}, {year}")
date_str(year, month, day) ==
  month_str(month) \o <<" ">> \o Dec(day) \o <<",", " ">> \o Dec(year)

\* to_markdown_with_options followed by to_html_with_options, both of the
\* markdown crates: the HTML of a tree is kept symbolic, one element per node
RECURSIVE to_html(_)
to_html(children) ==
  IF children = <<>> THEN <<>>
  ELSE <<"<" \o children[1].type \o ">">> \o children[1].value \o to_html(Tail(children))

article(title, date, author, categories_str, html) ==
  <<"\n<article>\n  <h1>">> \o title
  \o <<"</h1>\n  <div class=\"meta\"><span class=\"date\">">> \o date
  \o <<"</span> ", EM_DASH, " <span class=\"author\">by ">> \o author
  \o <<"</span> ", EM_DASH, " <span class=\"tags-inline\">">> \o categories_str
  \o <<"</span></div>\n">> \o html \o <<"\n</article>">>

title_str(title) == <<"<title>Casper's Blog ", EN_DASH, " ">> \o title \o <<"</title>">>

year_author(year, author) == <<COPYRIGHT, " ">> \o Dec(year) \o <<" ">> \o author

\* layout_post with its three markers replaced; the layout is not part of
\* the program text, so the page is the layout's name and the three texts
post_html(art, ttl, ya) ==
  [layout |-> "layouts/post.html", slots |-> <<art, ttl, ya>>]

\* url with the extension kept
url_with_md(file_name) == file_name \o <<".", "m", "d", ".", "h", "t", "m", "l">>

\* format!("{file_name}.html") and format!("public/{file_name}.html")
url(file_name) == file_name \o <<".", "h", "t", "m", "l">>
dest_path(file_name) == <<"p", "u", "b", "l", "i", "c", "/">> \o file_name \o <<".", "h", "t", "m", "l">>

\* "Writing {}.html"
WritingLine(file_name) == <<"W", "r", "i", "t", "i", "n", "g", " ">> \o file_name \o <<".", "h", "t", "m", "l">>

(***************************************************************************)
(* PostIndex and the index page                                            *)
(***************************************************************************)
\* unary minus of iN: it wraps at the least value in a release build (a
\* debug build panics there); parse_file_name gives no negative number
Neg(x, lo) == IF x = lo THEN lo ELSE -x

\* sort_key without the negation
sort_key_plain(year, month, day) == <<year, month, day>>

sort_key(year, month, day) == <<Neg(year, I32_MIN), Neg(month, I16_MIN), Neg(day, I16_MIN)>>

PostIndex(u, title, key, date, author, tgs) ==
  [url |-> u, title |-> title, sort_key |-> key, date_str |-> date,
   author |-> author, tags |-> tgs]

\* Ord for (i32, i16, i16)
KeyLE(a, b) ==
  \/ a[1] < b[1]
  \/ a[1] = b[1] /\ a[2] < b[2]
  \/ a[1] = b[1] /\ a[2] = b[2] /\ a[3] <= b[3]

\* Vec::sort_by_key(|post| post.sort_key): a stable sort
RECURSIVE sort_by_key(_)
sort_by_key(ps) ==
  IF Len(ps) <= 1 THEN ps
  ELSE LET sorted == sort_by_key(Take(ps, Len(ps) - 1))
           x == ps[Len(ps)]
           n == Cardinality({i \in 1..Len(sorted) : KeyLE(sorted[i].sort_key, x.sort_key)})
       IN Take(sorted, n) \o <<x>> \o Drop(sorted, n)

\* Ord for String: by the code points, a proper prefix first
RECURSIVE StrLE(_, _)
StrLE(a, b) ==
  IF a = <<>> THEN TRUE
  ELSE IF b = <<>> THEN FALSE
  ELSE IF a[1] # b[1] THEN Ord(a[1]) < Ord(b[1])
  ELSE StrLE(Tail(a), Tail(b))

\* Vec<&String>::sort()
RECURSIVE sort_strings(_)
sort_strings(v) ==
  IF Len(v) <= 1 THEN v
  ELSE LET sorted == sort_strings(Take(v, Len(v) - 1))
           x == v[Len(v)]
           n == Cardinality({i \in 1..Len(sorted) : StrLE(sorted[i], x)})
       IN Take(sorted, n) \o <<x>> \o Drop(sorted, n)

\* the orders in which HashSet::iter may yield the elements of a set
RECURSIVE IterOrders(_)
IterOrders(S) ==
  IF S = {} THEN {<<>>}
  ELSE UNION {{<<x>> \o rest : rest \in IterOrders(S \ {x})} : x \in S}

BUTTON_OPEN == "<button class=\"tag-filter-btn\" data-tag=\""
CARD_OPEN == "<article class=\"post-card\" data-tags=\""
HREF_OPEN == "<h2><a href=\""

button(tag) == <<BUTTON_OPEN>> \o tag \o <<"\">">> \o tag \o <<"</button>\n">>

RECURSIVE tags_html(_)
tags_html(v) == IF v = <<>> THEN <<>> ELSE button(v[1]) \o tags_html(Tail(v))

post_card(post) ==
  <<CARD_OPEN>> \o post.tags \o <<"\">", HREF_OPEN>> \o post.url \o <<"\">">>
  \o post.title \o <<"</a></h2>", "<div class=\"meta-line\">", "<span class=\"date\">">>
  \o post.date_str \o <<"</span> ", EM_DASH, " ", "<span class=\"author\">">>
  \o post.author \o <<"</span> ", EM_DASH, " ", "<span class=\"tags-inline\">">>
  \o post.tags \o <<"</span>", "</div>", "</article>", "\n">>

\* posts_html without the card of the last post
posts_html_but_last(ps) ==
  LET RECURSIVE cards(_)
      cards(qs) == IF Len(qs) <= 1 THEN <<>> ELSE post_card(qs[1]) \o cards(Tail(qs))
  IN cards(ps)

RECURSIVE posts_html(_)
posts_html(ps) == IF ps = <<>> THEN <<>> ELSE post_card(ps[1]) \o posts_html(Tail(ps))

\* layout_index with its two markers replaced
index_html(buttons, cards) ==
  [layout |-> "layouts/index.html", slots |-> <<buttons, cards>>]

INDEX_PATH == <<"p", "u", "b", "l", "i", "c", "/", "i", "n", "d", "e", "x", ".", "h", "t", "m", "l">>
WRITING_INDEX == <<"W", "r", "i", "t", "i", "n", "g", " ", "i", "n", "d", "e", "x", ".", "h", "t", "m", "l">>

\* fs::write(path, content) on the files of public/
fs_write(files, path, content) ==
  {f \in files : f.path # path} \cup {[path |-> path, content |-> content]}

\* a file of no byte, and a file that holds a proper prefix of a content
EmptyFile == [cut |-> "empty"]
Part(content) == [cut |-> "part", of |-> content]

\* the files of public/ after fs::write(path, content) failed: File::create
\* failed and nothing changed, or it created or truncated the file and
\* write_all failed before the last byte
fs_write_fails(files, path, content) ==
  {files} \cup {fs_write(files, path, c) : c \in {EmptyFile, Part(content)}}

(***************************************************************************)
(* The directory posts/: the entries the runs are checked on.  An entry is *)
(* a Result<DirEntry>; a file's content is given as the tree to_mdast      *)
(* makes of it.                                                            *)
(***************************************************************************)
Node(type, value) == [type |-> type, value |-> value]
Root(children) == [type |-> "Root", children |-> children]
File(name, children) == [ok |-> TRUE, name |-> name, tree |-> Root(children)]

E_Hello ==
  File(<<"2", "0", "2", "1", "-", "0", "3", "-", "0", "2", "-", "h", "e", "l", "l", "o", "-", "w", "o", "r", "l", "d", ".", "m", "d">>,
       <<Node("Yaml", <<"l", "a", "y", "o", "u", "t", ":", " ", "p", "o", "s", "t", "\n", "t", "i", "t", "l", "e", ":", " ", "\"", "H", "i", "\"", "\n", "a", "u", "t", "h", "o", "r", ":", " ", "\"", "A", "n", "n", "\"", "\n", "c", "a", "t", "e", "g", "o", "r", "i", "e", "s", ":", " ", "[", "i", "n", "t", "r", "o", "]">>),
         Node("Heading", <<"H", "e", "l", "l", "o">>)>>)
E_A ==
  File(<<"2", "0", "2", "4", "-", "0", "1", "-", "0", "5", "-", "a", ".", "m", "d">>,
       <<Node("Yaml", <<"t", "i", "t", "l", "e", ":", " ", "A", "\n", "c", "a", "t", "e", "g", "o", "r", "i", "e", "s", ":", " ", "[", "a", ",", " ", "b", "]">>), Node("Paragraph", <<"x">>)>>)
E_B ==
  File(<<"2", "0", "2", "4", "-", "0", "1", "-", "0", "5", "-", "b", ".", "m", "d">>,
       <<Node("Yaml", <<"t", "i", "t", "l", "e", ":", " ", "B", "\r", "\n", "c", "a", "t", "e", "g", "o", "r", "i", "e", "s", ":", " ", "[", "b", ",", " ", "c", "]", "\r", "\n">>)>>)
E_C ==
  File(<<"2", "0", "2", "3", "-", "1", "2", "-", "3", "1", "-", "c", ".", "m", "d">>,
       <<Node("Yaml", <<" ", " ", "t", "i", "t", "l", "e", " ", ":", " ", "\"", "C", "\"", " ", "\n", "n", "o", " ", "c", "o", "l", "o", "n", " ", "h", "e", "r", "e", "\n", "u", "n", "k", "n", "o", "w", "n", ":", " ", "x", "\n", "c", "a", "t", "e", "g", "o", "r", "i", "e", "s", ":", " ", "[", "a", ",", " ", "b", ",", "c", "]">>),
         Node("Html", <<"<", "b", ">">>)>>)
E_DoubleMd ==
  File(<<"2", "0", "2", "1", "-", "0", "3", "-", "0", "9", "-", "a", ".", "m", "d", ".", "m", "d">>,
       <<Node("Yaml", <<"t", "i", "t", "l", "e", ":", " ", "x", "\n", "c", "a", "t", "e", "g", "o", "r", "i", "e", "s", ":", " ", "[", "i", "n", "t", "r", "o", "]">>)>>)
E_Quote ==
  File(<<"2", "0", "2", "1", "-", "1", "3", "-", "0", "7", "-", "q", ".", "m", "d">>,
       <<Node("Yaml", <<"t", "i", "t", "l", "e", ":", " ", "\"", "T", "h", "e", " ", "\"", "b", "e", "s", "t", "\"", "\"", "\n", "a", "u", "t", "h", "o", "r", ":", " ", "B", "o", "b", "\n", "c", "a", "t", "e", "g", "o", "r", "i", "e", "s", ":", " ", "[", "a", ",", " ", "b", "]", "]">>),
         Node("Paragraph", <<"y">>)>>)
E_Txt == File(<<"n", "o", "t", "e", "s", ".", "t", "x", "t">>, <<>>)
E_Draft == File(<<"d", "r", "a", "f", "t", ".", "m", "d">>, <<Node("Yaml", <<"t", "i", "t", "l", "e", ":", " ", "d">>)>>)
E_NonNum == File(<<"2", "0", "2", "1", "-", "x", "x", "-", "0", "2", "-", "b", "a", "d", ".", "m", "d">>, <<Node("Yaml", <<"t", "i", "t", "l", "e", ":", " ", "n">>)>>)
E_NoFm == File(<<"2", "0", "2", "0", "-", "0", "7", "-", "0", "4", "-", "n", "o", "f", "m", ".", "m", "d">>, <<Node("Heading", <<"h">>)>>)
E_BadName == File(<<BadByte>> \o <<"-", "1", ".", "m", "d">>, <<>>)
E_Err == [ok |-> FALSE, name |-> <<>>, tree |-> Root(<<>>)]

Universe ==
  {E_Hello, E_A, E_B, E_C, E_DoubleMd, E_Quote, E_Txt, E_Draft, E_NonNum,
   E_NoFm, E_BadName, E_Err}

\* the listings of at most n entries: read_dir yields a directory's entries
\* once each, in an order of its own
Listings(n) ==
  UNION {IterOrders(S) : S \in {T \in SUBSET Universe : Cardinality(T) <= n}}

(***************************************************************************)
(* main                                                                    *)
(***************************************************************************)
Init ==
  /\ listing \in Listings(MaxEntries)
  /\ pos = 1
  /\ pc = "start"
  /\ entry = None
  /\ file_info = None
  /\ fm = None
  /\ mdast = None
  /\ posts = <<>>
  /\ tags = {}
  /\ tag_vec = <<>>
  /\ public = {}
  /\ console = <<>>
  /\ panic = None
  /\ run = 1
  /\ prev = None

\* fs::read_dir("posts").unwrap()
ReadDir ==
  /\ pc = "start"
  /\ pc' = "loop"
  /\ UNCHANGED <<listing, pos, entry, file_info, fm, mdast, posts, tags, tag_vec,
                 public, console, panic, run, prev>>

ReadDirFails ==
  /\ pc = "start"
  /\ pc' = "aborted"
  /\ panic' = Some("read_dir")
  /\ UNCHANGED <<listing, pos, entry, file_info, fm, mdast, posts, tags, tag_vec,
                 public, console, run, prev>>

InLoop == pc = "loop" /\ pos <= Len(listing)

\* the entry reaches fs::read_to_string: it is Ok, its extension is md, its
\* name is UTF-8 and parse_file_name accepts it
IsCandidate(e) ==
  /\ e.ok
  /\ ~ExtensionIsNotMd(e.name)
  /\ IsSome(to_str(e.name))
  /\ IsSome(parse_file_name(e.name))

\* the three `continue`s of the loop
SkipEntry ==
  /\ InLoop
  /\ LET e == listing[pos]
     IN /\ \/ ~e.ok
           \/ ExtensionIsNotMd(e.name)
           \/ IsSome(to_str(e.name)) /\ ~IsSome(parse_file_name(e.name))
        /\ entry' = Some(e)
  /\ pos' = pos + 1
  /\ file_info' = None
  /\ fm' = None
  /\ mdast' = None
  /\ UNCHANGED <<listing, pc, posts, tags, tag_vec, public, console, panic, run, prev>>

\* path.file_name().unwrap().to_str().unwrap() on a name that is no UTF-8
PanicFileName ==
  /\ InLoop
  /\ LET e == listing[pos]
     IN /\ e.ok
        /\ ~ExtensionIsNotMd(e.name)
        /\ ~IsSome(to_str(e.name))
        /\ entry' = Some(e)
  /\ pc' = "aborted"
  /\ panic' = Some("to_str")
  /\ file_info' = None
  /\ fm' = None
  /\ mdast' = None
  /\ UNCHANGED <<listing, pos, posts, tags, tag_vec, public, console, run, prev>>

\* the unwraps of lines 110 to 114: the file cannot be read, the markdown
\* crates fail, or the tree does not start with a frontmatter block
BeforeExtraction == {"read_to_string", "to_mdast", "parse_frontmatter"}
AfterExtraction == {"to_markdown", "to_html"}

FatalEntry ==
  /\ InLoop
  /\ IsCandidate(listing[pos])
  /\ LET e == listing[pos]
         pf == parse_frontmatter(e.tree)
     IN \E cause \in BeforeExtraction \cup AfterExtraction :
          /\ cause = "parse_frontmatter" => ~IsSome(pf.ret)
          /\ cause \in AfterExtraction => IsSome(pf.ret)
          /\ panic' = Some(cause)
          /\ entry' = Some(e)
          /\ file_info' = parse_file_name(e.name)
          /\ fm' = IF cause \in AfterExtraction THEN pf.ret ELSE None
          /\ mdast' = IF cause \in AfterExtraction THEN Some(pf.node)
                      ELSE IF cause = "parse_frontmatter" THEN Some(e.tree)
                      ELSE None
  /\ pc' = "aborted"
  /\ UNCHANGED <<listing, pos, posts, tags, tag_vec, public, console, run, prev>>

\* HashSet::insert of every category
InsertAll(set, categories) == set \cup {categories[i] : i \in 1..Len(categories)}

\* the PostIndex pushed for a file name and a frontmatter
PostIndexOf(fi, f) ==
  PostIndex(url(fi.file_name), f.title, sort_key(fi.year, fi.month, fi.day),
            date_str(fi.year, fi.month, fi.day), f.author,
            join(f.categories, <<",", " ">>))

\* the page written for a file name, a frontmatter and the rest of the tree
PageOf(fi, f, node) ==
  post_html(article(f.title, date_str(fi.year, fi.month, fi.day), f.author,
                    join(f.categories, <<",", " ">>), to_html(node.children)),
            title_str(f.title),
            year_author(fi.year, f.author))

\* lines 110 to 167 with every unwrap passing
WritePost ==
  /\ InLoop
  /\ IsCandidate(listing[pos])
  /\ IsSome(parse_frontmatter(listing[pos].tree).ret)
  /\ LET e == listing[pos]
         fi == parse_file_name(e.name).val
         pf == parse_frontmatter(e.tree)
     IN /\ entry' = Some(e)
        /\ file_info' = Some(fi)
        /\ fm' = pf.ret
        /\ mdast' = Some(pf.node)
        /\ tags' = InsertAll(tags, pf.ret.val.categories)
        /\ console' = Append(console, WritingLine(fi.file_name))
        /\ public' = fs_write(public, dest_path(fi.file_name), PageOf(fi, pf.ret.val, pf.node))
        /\ posts' = Append(posts, PostIndexOf(fi, pf.ret.val))
  /\ pos' = pos + 1
  /\ UNCHANGED <<listing, pc, tag_vec, panic, run, prev>>

\* the same with println! of line 157 or fs::write(&dest_path, post_html)
\* failing: println! panics when stdout cannot be written, before the file
\* is touched
WritePostFails ==
  /\ InLoop
  /\ IsCandidate(listing[pos])
  /\ IsSome(parse_frontmatter(listing[pos].tree).ret)
  /\ LET e == listing[pos]
         fi == parse_file_name(e.name).val
         pf == parse_frontmatter(e.tree)
     IN /\ entry' = Some(e)
        /\ file_info' = Some(fi)
        /\ fm' = pf.ret
        /\ mdast' = Some(pf.node)
        /\ tags' = InsertAll(tags, pf.ret.val.categories)
        /\ \/ /\ panic' = Some("println!")
              /\ UNCHANGED <<console, public>>
           \/ /\ panic' = Some("fs::write")
              /\ console' = Append(console, WritingLine(fi.file_name))
              /\ public' \in fs_write_fails(public, dest_path(fi.file_name),
                                           PageOf(fi, pf.ret.val, pf.node))
  /\ pc' = "aborted"
  /\ UNCHANGED <<listing, pos, posts, tag_vec, run, prev>>

\* sort_tags without the sort: the order of HashSet::iter
sort_tags_unsorted(v) == v

\* tags.sort()
sort_tags(v) == sort_strings(v)

\* sort_posts without the sort: the order of the pushes
sort_posts_unsorted(ps) == ps

\* posts.sort_by_key(|post| post.sort_key)
sort_posts(ps) == sort_by_key(ps)

\* lines 170 to 212
WriteIndex ==
  /\ pc = "loop"
  /\ pos > Len(listing)
  /\ \E order \in IterOrders(tags) :
       /\ tag_vec' = sort_tags(order)
       /\ posts' = sort_posts(posts)
       /\ public' = fs_write(public, INDEX_PATH,
                             index_html(tags_html(tag_vec'), posts_html(posts')))
  /\ console' = Append(console, WRITING_INDEX)
  /\ pc' = "done"
  /\ UNCHANGED <<listing, pos, entry, file_info, fm, mdast, tags, panic, run, prev>>

\* the same with println! of line 211 or
\* fs::write("public/index.html", index_html) failing
WriteIndexFails ==
  /\ pc = "loop"
  /\ pos > Len(listing)
  /\ \E order \in IterOrders(tags) : tag_vec' = sort_tags(order)
  /\ posts' = sort_posts(posts)
  /\ \/ /\ panic' = Some("println!")
        /\ UNCHANGED <<console, public>>
     \/ /\ panic' = Some("fs::write")
        /\ console' = Append(console, WRITING_INDEX)
        /\ public' \in fs_write_fails(public, INDEX_PATH,
                                     index_html(tags_html(tag_vec'), posts_html(posts')))
  /\ pc' = "aborted"
  /\ UNCHANGED <<listing, pos, entry, file_info, fm, mdast, tags, run, prev>>

\* the program is run again on the same directory after a run that
\* completed: the files of public/ stay, and read_dir may yield the entries
\* in another order
Restart ==
  /\ run = 1
  /\ pc = "done"
  /\ run' = 2
  /\ prev' = Some([public |-> public, listing |-> listing])
  /\ listing' \in IterOrders({listing[i] : i \in 1..Len(listing)})
  /\ pos' = 1
  /\ pc' = "start"
  /\ entry' = None
  /\ file_info' = None
  /\ fm' = None
  /\ mdast' = None
  /\ posts' = <<>>
  /\ tags' = {}
  /\ tag_vec' = <<>>
  /\ console' = <<>>
  /\ panic' = None
  /\ UNCHANGED public

Next ==
  \/ ReadDir
  \/ ReadDirFails
  \/ SkipEntry
  \/ PanicFileName
  \/ FatalEntry
  \/ WritePost
  \/ WritePostFails
  \/ WriteIndex
  \/ WriteIndexFails

Spec == Init /\ [][Next]_vars

\* two runs of the program on one directory
InitTwice == Init /\ Len(listing) <= MaxRerun
NextTwice == Next \/ Restart
SpecTwice == InitTwice /\ [][NextTwice]_vars

(***************************************************************************)
(* What the properties below read off a state.  What depends on an entry   *)
(* alone is tabulated over the entries of the directory.                   *)
(***************************************************************************)
\* the entry has a frontmatter block at the top of its tree
HasFrontmatter(e) == IsSome(parse_frontmatter(e.tree).ret)

\* the entries that reach fs::read_to_string, those of them without a
\* frontmatter block, and those that become posts when nothing outside the
\* program fails
Candidates == {e \in Universe : IsCandidate(e)}
NoFrontmatter == {e \in Candidates : ~HasFrontmatter(e)}
PostEntries == {e \in Candidates : HasFrontmatter(e)}
IsPostEntry(e) == e \in PostEntries

\* the indices of the entries of the listing that become posts
PostIndices == {j \in 1..Len(listing) : IsPostEntry(listing[j])}

FileNameTable == [e \in PostEntries |-> parse_file_name(e.name).val]
FileNameOf(e) == FileNameTable[e]

CategoriesTable ==
  [e \in PostEntries |->
     LET cs == parse_frontmatter(e.tree).ret.val.categories
     IN {cs[i] : i \in 1..Len(cs)}]
CategoriesOf(e) == CategoriesTable[e]

Paths(files) == {f.path : f \in files}
FileAt(files, path) == CHOOSE f \in files : f.path = path

\* the last iteration of the loop wrote a post page
WrittenLast == pc = "loop" /\ IsSome(fm)

\* number of elements of a text that are the chunk
Count(text, chunk) == Cardinality({i \in 1..Len(text) : text[i] = chunk})

\* the text holds part as a contiguous run
Contains(text, part) ==
  \E i \in 0..(Len(text) - Len(part)) : SubSeq(text, i + 1, i + Len(part)) = part

IsPrefix(s, t) == Len(s) <= Len(t) /\ SubSeq(t, 1, Len(s)) = s

\* (year, month, day) of a is later than that of b / the same
DateLater(a, b) ==
  \/ a.year > b.year
  \/ a.year = b.year /\ a.month > b.month
  \/ a.year = b.year /\ a.month = b.month /\ a.day > b.day
DateSame(a, b) == a.year = b.year /\ a.month = b.month /\ a.day = b.day

(***************************************************************************)
(* C1                                                                      *)
(***************************************************************************)
EntryPanics == BeforeExtraction \cup AfterExtraction \cup {"fs::write"}

\* the run panicked while handling the entry at pos
AbortedAtEntry ==
  pc = "aborted" /\ IsSome(panic) /\ panic.val \in EntryPanics /\ pos <= Len(listing)

\* C1: when an entry that passed the extension check and the file-name
\* parser hits a fatal condition (an output write failure among them), the
\* build stops at that entry: the pages on disk are those of the posts listed
\* before it, no page of that entry or of a later one is written, and
\* public/index.html is not written; an entry without a frontmatter block is
\* never passed by the loop.
C1_FatalAbort ==
  /\ \A j \in 1..Len(listing) :
       listing[j] \in NoFrontmatter => (pos <= j /\ pc # "done")
  /\ AbortedAtEntry =>
       /\ listing[pos] \in Candidates
       /\ Paths(public) =
            {dest_path(FileNameOf(listing[j]).file_name) : j \in {k \in PostIndices : k < pos}}
       /\ INDEX_PATH \notin Paths(public)
       /\ \A i \in 1..Len(console) : console[i] # WRITING_INDEX
       /\ Len(posts) = Cardinality({k \in PostIndices : k < pos})

(***************************************************************************)
(* C2                                                                      *)
(***************************************************************************)
\* the name without one trailing ".md"
StripOneMd(name) ==
  IF EndsWith(name, <<".", "m", "d">>) THEN Take(name, Len(name) - 3) ELSE name

IsBase10(seg) == seg # <<>> /\ \A i \in 1..Len(seg) : seg[i] \in Digits

\* the entries C2 is about: the extension is not md, or the name has fewer
\* than 4 dash-separated segments, or one of the first three is no integer
Skippable(name) ==
  \/ ~EndsWith(name, <<".", "m", "d">>)
  \/ Len(split(StripOneMd(name), "-")) < 4
  \/ \E k \in 1..3 : ~IsBase10(split(StripOneMd(name), "-")[k])

\* C2: an entry whose extension is not md, or whose name has fewer than 4
\* dash-separated segments, or whose year, month or day segment is no
\* base-10 integer, does not abort the run and contributes nothing: the loop
\* goes on to the next entry with the post list, the tag set and the files
\* of public/ unchanged.
C2_SilentSkip ==
  [][(InLoop /\ Skippable(listing[pos].name))
       => (pc' = "loop" /\ pos' = pos + 1 /\ UNCHANGED <<posts, tags, public>>)]_vars

(***************************************************************************)
(* C3                                                                      *)
(***************************************************************************)
C3_IndexLast ==
  /\ \A i \in 1..(Len(console) - 1) : console[i] # WRITING_INDEX
  /\ (run = 1 /\ INDEX_PATH \in Paths(public)) =>
       /\ pos > Len(listing)
       /\ pc \in {"done", "aborted"}
       /\ console # <<>>
       /\ console[Len(console)] = WRITING_INDEX
  /\ (pc = "aborted" /\ INDEX_PATH \in Paths(public)) =>
       FileAt(public, INDEX_PATH).content \in
         {EmptyFile, Part(index_html(tags_html(tag_vec), posts_html(posts)))}
  /\ pc = "done" =>
       /\ console # <<>>
       /\ console[Len(console)] = WRITING_INDEX
       /\ INDEX_PATH \in Paths(public)
       /\ LET index == FileAt(public, INDEX_PATH).content
          IN /\ Count(index.slots[2], CARD_OPEN) = Len(console) - 1
             /\ Count(index.slots[2], CARD_OPEN) = Cardinality(PostIndices)
             /\ \A j \in PostIndices : \A c \in CategoriesOf(listing[j]) :
                  Contains(index.slots[1], button(c))

C3_Grow ==
  (pc = "loop" /\ pc' = "loop") => (IsPrefix(posts, posts') /\ tags \subseteq tags')

\* C3: in every run that completes, public/index.html is written once and
\* after the last post page, it holds one post card per page written in the
\* run and one button for every tag of those posts; during the loop the post
\* list and the tag set only grow.
C3_IndexAfterPosts == []C3_IndexLast /\ [][C3_Grow]_vars

\* C3 witness: a completed run that skipped an entry and wrote two pages and
\* an index with two cards
C3_Witness ==
  /\ pc = "done"
  /\ Len(listing) = 3
  /\ Cardinality(PostIndices) = 2
  /\ Len(console) = 3
  /\ Cardinality(tags) >= 2
  /\ Count(FileAt(public, INDEX_PATH).content.slots[2], CARD_OPEN) = 2

(***************************************************************************)
(* C4                                                                      *)
(***************************************************************************)
\* the entry of the listing a post of the index came from
UrlTable == [e \in PostEntries |-> url(FileNameOf(e).file_name)]
SourceOf(post) == CHOOSE j \in PostIndices : UrlTable[listing[j]] = post.url

\* dates the parser can produce, the extremes among them
SampleDates ==
  {[year |-> y, month |-> m, day |-> d] :
     y \in {0, 2023, I32_MAX}, m \in {0, 12, I16_MAX}, d \in {0, 31, I16_MAX}}

\* the negated sort key orders the dates as the descending date does
NegatedKeyOrdersDates ==
  \A a, b \in SampleDates :
    KeyLE(sort_key(a.year, a.month, a.day), sort_key(b.year, b.month, b.day))
      <=> (DateLater(a, b) \/ DateSame(a, b))

\* C4: the post cards of the index are in descending (year, month, day)
\* order, most recent first, posts of one date in the order in which they
\* were appended; the negated sort key orders dates as the descending date
\* does.
C4_IndexSorted ==
  /\ NegatedKeyOrdersDates
  /\ pc = "done" =>
    /\ \A i, k \in 1..Len(posts) :
         i < k =>
           LET a == SourceOf(posts[i])
               b == SourceOf(posts[k])
           IN \/ DateLater(FileNameOf(listing[a]), FileNameOf(listing[b]))
              \/ DateSame(FileNameOf(listing[a]), FileNameOf(listing[b])) /\ a < b
    /\ {SourceOf(posts[i]) : i \in 1..Len(posts)} = PostIndices
    /\ Len(posts) = Cardinality(PostIndices)
    /\ FileAt(public, INDEX_PATH).content.slots[2] = posts_html(posts)

\* C4 witness: the index of three posts, two of one date listed around an
\* older one, the first listed being the oldest
C4_Witness ==
  /\ pc = "done"
  /\ Len(posts) = 3
  /\ \E i, k \in PostIndices :
       i < k /\ DateSame(FileNameOf(listing[i]), FileNameOf(listing[k]))
  /\ \E i, k \in PostIndices :
       i < k /\ DateLater(FileNameOf(listing[k]), FileNameOf(listing[i]))

(***************************************************************************)
(* C5                                                                      *)
(***************************************************************************)
\* a is before b in the lexicographic order of the code points
LexLess(a, b) ==
  \E k \in 0..Len(a) :
    /\ k <= Len(b)
    /\ SubSeq(a, 1, k) = SubSeq(b, 1, k)
    /\ \/ k = Len(a) /\ k < Len(b)
       \/ k < Len(a) /\ k < Len(b) /\ Ord(a[k + 1]) < Ord(b[k + 1])

\* C5: the filter buttons of the index are the distinct category names of
\* the processed posts, each once, in ascending lexicographic order,
\* whatever the order in which the posts were processed; the categories
\* [a, b] and [b, c] give a, b, c.
C5_TagsSortedDistinct ==
  pc = "done" =>
    /\ \A i, k \in 1..Len(tag_vec) : i < k => LexLess(tag_vec[i], tag_vec[k])
    /\ {tag_vec[i] : i \in 1..Len(tag_vec)} = UNION {CategoriesOf(listing[j]) : j \in PostIndices}
    /\ FileAt(public, INDEX_PATH).content.slots[1] = tags_html(tag_vec)
    /\ Count(FileAt(public, INDEX_PATH).content.slots[1], BUTTON_OPEN)
         = Cardinality(UNION {CategoriesOf(listing[j]) : j \in PostIndices})
    /\ {listing[j] : j \in PostIndices} = {E_A, E_B} => tag_vec = <<<<"a">>, <<"b">>, <<"c">>>>

\* C5 witness: the posts with the categories [b, c] and [a, b], processed
\* in this order, and the index written
C5_Witness ==
  /\ pc = "done"
  /\ Len(listing) = 2
  /\ listing[1] = E_B
  /\ listing[2] = E_A
  /\ Len(tag_vec) = 3

(***************************************************************************)
(* C6                                                                      *)
(***************************************************************************)
BothRunsComplete == run = 2 /\ pc = "done"

\* two posts of the directory have the same (year, month, day)
DateTie ==
  \E i, k \in PostIndices :
    i # k /\ DateSame(FileNameOf(listing[i]), FileNameOf(listing[k]))

\* C6 as stated: two complete runs on an unchanged directory leave the same
\* files in public/, for every order of the listing on either run.
C6_SameOutputAnyOrder == BothRunsComplete => public = prev.val.public

\* C6 amended: two complete runs on an unchanged directory leave the same
\* files in public/, for every order of the listing on either run, when no
\* two posts of the directory have the same date.
C6_SameOutputNoDateTie ==
  (BothRunsComplete /\ ~DateTie) => public = prev.val.public

\* C6 witness: two complete runs that listed two posts of different dates in
\* different orders
C6_Witness ==
  /\ BothRunsComplete
  /\ ~DateTie
  /\ Cardinality(PostIndices) = 2
  /\ listing # prev.val.listing
  /\ public = prev.val.public

(***************************************************************************)
(* C7                                                                      *)
(***************************************************************************)
\* YYYY-MM-DD-slug
DatedForm(stem) ==
  /\ Len(stem) >= 11
  /\ \A i \in {1, 2, 3, 4, 6, 7, 9, 10} : stem[i] \in Digits
  /\ \A i \in {5, 8, 11} : stem[i] = "-"

RECURSIVE DecimalValue(_)
DecimalValue(ds) ==
  IF ds = <<>> THEN 0
  ELSE 10 * DecimalValue(Take(ds, Len(ds) - 1)) + DigitVal(ds[Len(ds)])

\* the parser has been applied to the name of the entry handled last
NameParsed ==
  /\ pc = "loop"
  /\ IsSome(entry)
  /\ entry.val.ok
  /\ ~ExtensionIsNotMd(entry.val.name)
  /\ IsSome(to_str(entry.val.name))

\* what C7 expects of a name: the fields read off the positions of the stem
ExpectedFileName(stem) ==
  FileNameStruct(stem,
                 DecimalValue(SubSeq(stem, 1, 4)),
                 DecimalValue(SubSeq(stem, 6, 7)),
                 DecimalValue(SubSeq(stem, 9, 10)),
                 Drop(stem, 11))

\* the parser on names that have no extension
NoExtensionParsed ==
  \A stem \in {<<"2", "0", "2", "1", "-", "0", "3", "-", "0", "2", "-", "h", "e", "l", "l", "o", "-", "w", "o", "r", "l", "d">>, <<"1", "9", "9", "9", "-", "1", "2", "-", "3", "1", "-">>, <<"0", "0", "0", "1", "-", "0", "1", "-", "0", "1", "-", "a", "-", "b", "-", "c">>} :
    parse_file_name(stem) = Some(ExpectedFileName(stem))

\* C7: for a file name YYYY-MM-DD-slug with an optional single trailing
\* ".md", the parser strips that one ".md" and gives the year, month and day
\* encoded, the slug as everything after the third dash with the dashes it
\* holds, and the raw name as the file name without that extension.
C7_FileNameParsed ==
  /\ NoExtensionParsed
  /\ (/\ NameParsed
      /\ DatedForm(StripOneMd(entry.val.name))
      /\ ~EndsWith(StripOneMd(entry.val.name), <<".", "m", "d">>))
       => file_info = Some(ExpectedFileName(StripOneMd(entry.val.name)))

\* C7 witness: the parser applied to 2021-03-02-hello-world.md, whose slug
\* holds a dash
C7_Witness ==
  /\ NameParsed
  /\ entry.val.name = <<"2", "0", "2", "1", "-", "0", "3", "-", "0", "2", "-", "h", "e", "l", "l", "o", "-", "w", "o", "r", "l", "d", ".", "m", "d">>
  /\ IsSome(file_info)
  /\ file_info.val.slug = <<"h", "e", "l", "l", "o", "-", "w", "o", "r", "l", "d">>
  /\ file_info.val.file_name = <<"2", "0", "2", "1", "-", "0", "3", "-", "0", "2", "-", "h", "e", "l", "l", "o", "-", "w", "o", "r", "l", "d">>

(***************************************************************************)
(* C8                                                                      *)
(***************************************************************************)
\* one layer of an opening and a closing character removed, if present
StripLayer(v, open, close) ==
  IF Len(v) >= 2 /\ v[1] = open /\ v[Len(v)] = close
  THEN SubSeq(v, 2, Len(v) - 1)
  ELSE v

SplitTrimmed(v) ==
  LET items == split(v, ",") IN [i \in 1..Len(items) |-> trim(items[i])]

ExpectedLine(f, line) ==
  LET kv == split_once(line, ":")
  IN IF ~IsSome(kv) THEN f
     ELSE LET key == trim(kv.val[1])
              value == trim(kv.val[2])
          IN CASE key = <<"l", "a", "y", "o", "u", "t">> -> [f EXCEPT !.layout = value]
               [] key = <<"t", "i", "t", "l", "e">> -> [f EXCEPT !.title = StripLayer(value, "\"", "\"")]
               [] key = <<"a", "u", "t", "h", "o", "r">> -> [f EXCEPT !.author = StripLayer(value, "\"", "\"")]
               [] key = <<"c", "a", "t", "e", "g", "o", "r", "i", "e", "s">> ->
                    [f EXCEPT !.categories = SplitTrimmed(StripLayer(value, "[", "]"))]
               [] OTHER -> f

RECURSIVE ExpectedLines(_, _)
ExpectedLines(f, ls) ==
  IF ls = <<>> THEN f ELSE ExpectedLines(ExpectedLine(f, ls[1]), Tail(ls))

\* C8: the record extracted from a block of flat key: value lines has the
\* trimmed layout verbatim, title and author with one layer of surrounding
\* double quotes stripped, categories with one layer of surrounding brackets
\* stripped, split on "," and trimmed; absent keys stay empty, other lines
\* are ignored; the block is no child of the tree after the extraction.
C8_FrontmatterExtracted ==
  WrittenLast =>
    /\ fm.val = ExpectedLines(DefaultFrontmatter,
                              lines(entry.val.tree.children[1].value))
    /\ mdast.val.children = Tail(entry.val.tree.children)
    /\ \A i \in 1..Len(mdast.val.children) : mdast.val.children[i].type # "Yaml"

(***************************************************************************)
(* C9                                                                      *)
(***************************************************************************)
HELLO_MD == <<"2", "0", "2", "1", "-", "0", "3", "-", "0", "2", "-", "h", "e", "l", "l", "o", "-", "w", "o", "r", "l", "d", ".", "m", "d">>

\* C9 as stated: the page of a post and its URL in the index are the file
\* name of the post followed by ".html"; 2021-03-02-hello-world.md is
\* written to public/2021-03-02-hello-world.md.html.
C9_NameKeepsExtension ==
  WrittenLast =>
    /\ posts[Len(posts)].url = entry.val.name \o <<".", "h", "t", "m", "l">>
    /\ (<<"p", "u", "b", "l", "i", "c", "/">> \o entry.val.name \o <<".", "h", "t", "m", "l">>) \in Paths(public)
    /\ entry.val.name = HELLO_MD =>
         <<"p", "u", "b", "l", "i", "c", "/", "2", "0", "2", "1", "-", "0", "3", "-", "0", "2", "-", "h", "e", "l", "l", "o", "-", "w", "o", "r", "l", "d", ".", "m", "d", ".", "h", "t", "m", "l">> \in Paths(public)

\* C9 amended: the page of a post and its URL in the index are the same
\* name, the raw name the file-name parser retains followed by ".html";
\* 2021-03-02-hello-world.md is written to
\* public/2021-03-02-hello-world.html and its card links to
\* 2021-03-02-hello-world.html.
C9_NameDropsExtension ==
  /\ WrittenLast =>
       /\ posts[Len(posts)].url = file_info.val.file_name \o <<".", "h", "t", "m", "l">>
       /\ (<<"p", "u", "b", "l", "i", "c", "/">> \o posts[Len(posts)].url) \in Paths(public)
       /\ entry.val.name = HELLO_MD =>
            /\ <<"p", "u", "b", "l", "i", "c", "/", "2", "0", "2", "1", "-", "0", "3", "-", "0", "2", "-", "h", "e", "l", "l", "o", "-", "w", "o", "r", "l", "d", ".", "h", "t", "m", "l">> \in Paths(public)
            /\ posts[Len(posts)].url = <<"2", "0", "2", "1", "-", "0", "3", "-", "0", "2", "-", "h", "e", "l", "l", "o", "-", "w", "o", "r", "l", "d", ".", "h", "t", "m", "l">>
  /\ pc = "done" =>
       \A i \in 1..Len(posts) :
         /\ (<<"p", "u", "b", "l", "i", "c", "/">> \o posts[i].url) \in Paths(public)
         /\ Contains(FileAt(public, INDEX_PATH).content.slots[2],
                     <<HREF_OPEN>> \o posts[i].url \o <<"\">">>)
         /\ E_Hello \in {listing[j] : j \in 1..Len(listing)} =>
              Contains(FileAt(public, INDEX_PATH).content.slots[2],
                       <<HREF_OPEN>> \o <<"2", "0", "2", "1", "-", "0", "3", "-", "0", "2", "-", "h", "e", "l", "l", "o", "-", "w", "o", "r", "l", "d", ".", "h", "t", "m", "l">> \o <<"\">">>)

\* C9 witness: the index written after the page of 2021-03-02-hello-world.md
C9_Witness ==
  /\ pc = "done"
  /\ E_Hello \in {listing[j] : j \in 1..Len(listing)}
  /\ <<"p", "u", "b", "l", "i", "c", "/", "2", "0", "2", "1", "-", "0", "3", "-", "0", "2", "-", "h", "e", "l", "l", "o", "-", "w", "o", "r", "l", "d", ".", "h", "t", "m", "l">> \in Paths(public)
  /\ Len(posts) >= 2

(***************************************************************************)
(* C10                                                                     *)
(***************************************************************************)
\* the months checked are -MonthRange..MonthRange
MonthRange == 20

MonthNames ==
  <<<<"J", "a", "n">>, <<"F", "e", "b">>, <<"M", "a", "r">>, <<"A", "p", "r">>, <<"M", "a", "y">>, <<"J", "u", "n", "e">>, <<"J", "u", "l", "y">>, <<"A", "u", "g">>,
    <<"S", "e", "p", "t">>, <<"O", "c", "t">>, <<"N", "o", "v">>, <<"D", "e", "c">>>>

ExpectedMonth(m) == IF m \in 1..Len(MonthNames) THEN MonthNames[m] ELSE <<"U", "n", "k", "n", "o", "w", "n">>

\* the abbreviation of every month of the range and of the extremes of i16
MonthTableTotal ==
  /\ \A m \in (-MonthRange)..MonthRange : month_str(m) = ExpectedMonth(m)
  /\ \A m \in {I16_MIN, I16_MAX} : month_str(m) = <<"U", "n", "k", "n", "o", "w", "n">>

\* C10: the month abbreviation is defined for every month value: 1..12 give
\* Jan, Feb, Mar, Apr, May, June, July, Aug, Sept, Oct, Nov, Dec and every
\* other value gives "Unknown"; the date of a post is
\* "{MonthAbbrev} {day}, {year}".
C10_DateFormatted ==
  /\ MonthTableTotal
  /\ WrittenLast =>
       /\ posts[Len(posts)].date_str =
            ExpectedMonth(file_info.val.month) \o <<" ">> \o Dec(file_info.val.day)
              \o <<",", " ">> \o Dec(file_info.val.year)
       /\ Contains(FileAt(public, dest_path(file_info.val.file_name)).content.slots[1],
                   posts[Len(posts)].date_str)
       /\ entry.val = E_Hello => posts[Len(posts)].date_str = <<"M", "a", "r", " ", "2", ",", " ", "2", "0", "2", "1">>
       /\ entry.val = E_Quote => posts[Len(posts)].date_str = <<"U", "n", "k", "n", "o", "w", "n", " ", "7", ",", " ", "2", "0", "2", "1">>
       /\ entry.val = E_C => posts[Len(posts)].date_str = <<"D", "e", "c", " ", "3", "1", ",", " ", "2", "0", "2", "3">>

\* C10 witness: a page written for a post of month 13
C10_Witness ==
  /\ WrittenLast
  /\ file_info.val.month = 13
  /\ posts[Len(posts)].date_str = <<"U", "n", "k", "n", "o", "w", "n", " ", "7", ",", " ", "2", "0", "2", "1">>

====
